---- MODULE Spec2Model ----
\* Ingestion pipeline, deduplication gate, media repository, similarity
\* search and vector codec of the go-api-provider (internal/service,
\* internal/database, internal/api, internal/client, internal/config).
EXTENDS Integers, Sequences, FiniteSets, TLC

\* ---------------------------------------------------------------- bounds
\* runtime.GOMAXPROCS(0): the available parallelism of the host.
GOMAXPROCS == 1
\* Longest batch a caller sends.
MaxBatchLen == 3
\* Number of injected collaborator faults (repository I/O errors, bad
\* extraction responses) in one behaviour.
MaxFaults == 1
\* Longest batch when two batch calls and a direct-index call run together.
MaxWriterBatchLen == 1
\* Longest vector handed to the codec.
MaxVecLen == 2

\* ---------------------------------------------------------------- values
\* models.MediaType
ImageType == "image"
AudioType == "audio"

\* ipb.MediaType / fpb.MediaType enum values
MediaType_UNKNOWN == "UNKNOWN"
MediaType_IMAGE == "IMAGE"
MediaType_AUDIO == "AUDIO"

\* fpb.Status enum values used by the checks
Status_SUCCESS == "SUCCESS"
Status_FAILED_DOWNLOAD == "FAILED_DOWNLOAD"

Pages == {"p1", "p2"}
MediaUrls == {"m1", "m2"}
BatchIds == {"b1", "b2"}
DirectIds == {"d1"}
SearchIds == {"s1", "s2"}
ScrapeIds == {"j1"}

\* Faulty variant: the existence check looks in one table for both classes.
TableOfShared(mediaType) == "images"

\* Table of a media class: "images" for models.Image, "audio" for models.Audio.
TableOf(mediaType) == IF mediaType = ImageType THEN "images" ELSE "audio"
Tables == {"images", "audio"}

\* Dimensionality of the feature_vector column, scaled down from
\* vector(1568) and vector(768).
ImageDim == 2
AudioDim == 1
Dim(table) == IF table = "images" THEN ImageDim ELSE AudioDim

\* ---------------------------------------------------------------- codec
\* A float32 is represented by the three fields of its IEEE-754 bit pattern:
\* sign (1 bit), exp (8 bits), frac (23 bits).
F32(sign, exp, frac) == [sign |-> sign, exp |-> exp, frac |-> frac]

F32_One == F32(0, 127, 0)
F32_Two == F32(0, 128, 0)
F32_NaN == F32(0, 255, 4194304)
F32_Inf == F32(0, 255, 0)
F32_NegInf == F32(1, 255, 0)
F32_NegNaN == F32(1, 255, 1)
F32_Zero == F32(0, 0, 0)
F32_MaxFinite == F32(0, 254, 8388607)
\* -1.0000001: the four bytes of its pattern all differ.
F32_NegOneUp == F32(1, 127, 1)

\* math.IsNaN / math.IsInf(v, 0) of float64(v): the widening keeps the class.
IsNaN(f) == f.exp = 255 /\ f.frac # 0
IsInf(f) == f.exp = 255 /\ f.frac = 0

\* Faulty variant: the four bytes of a group are read most significant first.
BigEndianFloat32(data, i) ==
    F32(data[4 * i + 1] \div 128,
        (data[4 * i + 1] % 128) * 2 + data[4 * i + 2] \div 128,
        (data[4 * i + 2] % 128) * 65536 + data[4 * i + 3] * 256 + data[4 * i + 4])

\* binary.Read(..., binary.LittleEndian, &result), element i (0-based): byte 0
\* of the group is the least significant of the 32-bit pattern.
LittleEndianFloat32(data, i) ==
    F32(data[4 * i + 4] \div 128,
        (data[4 * i + 4] % 128) * 2 + data[4 * i + 3] \div 128,
        (data[4 * i + 3] % 128) * 65536 + data[4 * i + 2] * 256 + data[4 * i + 1])

\* Faulty variant: only NaN is looked for.
FirstNaN(result) ==
    LET bad == {i \in 1..Len(result) : IsNaN(result[i])}
    IN IF bad = {} THEN -1
       ELSE (CHOOSE i \in bad : \A j \in bad : i <= j) - 1

\* Index (0-based) of the first NaN or Inf of a decoded slice, -1 if none.
FirstNonFinite(result) ==
    LET bad == {i \in 1..Len(result) : IsNaN(result[i]) \/ IsInf(result[i])}
    IN IF bad = {} THEN -1
       ELSE (CHOOSE i \in bad : \A j \in bad : i <= j) - 1

\* Faulty variant: the length check is missing and the trailing bytes of an
\* unaligned buffer are dropped.
VectorFromBytesTruncating(data) ==
    LET count == Len(data) \div 4
        result == [i \in 1..count |-> LittleEndianFloat32(data, i - 1)]
        idx == FirstNonFinite(result)
    IN IF idx # -1 THEN [vec |-> <<>>, err |-> TRUE, index |-> idx]
       ELSE [vec |-> result, err |-> FALSE, index |-> -1]

\* Faulty variant: the loop that looks for NaN and Inf is missing.
VectorFromBytesUnchecked(data) ==
    IF Len(data) % 4 # 0 THEN [vec |-> <<>>, err |-> TRUE, index |-> -1]
    ELSE [vec |-> [i \in 1..(Len(data) \div 4) |-> LittleEndianFloat32(data, i - 1)],
          err |-> FALSE, index |-> -1]

\* Faulty variant: an empty buffer is an error.
VectorFromBytesRejectEmpty(data) ==
    IF Len(data) % 4 # 0 \/ Len(data) = 0 THEN [vec |-> <<>>, err |-> TRUE, index |-> -1]
    ELSE LET count == Len(data) \div 4
             result == [i \in 1..count |-> LittleEndianFloat32(data, i - 1)]
             idx == FirstNonFinite(result)
         IN IF idx # -1 THEN [vec |-> <<>>, err |-> TRUE, index |-> idx]
            ELSE [vec |-> result, err |-> FALSE, index |-> -1]

\* client.VectorFromBytes: [vec, err, index]; index is the element the error
\* message names, -1 when it names none.
VectorFromBytes(data) ==
    IF Len(data) % 4 # 0 THEN [vec |-> <<>>, err |-> TRUE, index |-> -1]
    ELSE IF Len(data) = 0 THEN [vec |-> <<>>, err |-> FALSE, index |-> -1]
    ELSE LET count == Len(data) \div 4
             result == [i \in 1..count |-> LittleEndianFloat32(data, i - 1)]
             idx == FirstNonFinite(result)
         IN IF idx # -1 THEN [vec |-> <<>>, err |-> TRUE, index |-> idx]
            ELSE [vec |-> result, err |-> FALSE, index |-> -1]

\* The bytes the extraction service sends for one float32: the 32-bit
\* pattern, least significant byte first.
WireBytes(f) ==
    <<f.frac % 256, (f.frac \div 256) % 256,
      (f.exp % 2) * 128 + f.frac \div 65536, f.sign * 128 + f.exp \div 2>>

RECURSIVE Repeat(_, _)
Repeat(s, n) == IF n = 0 THEN <<>> ELSE s \o Repeat(s, n - 1)

\* ---------------------------------------------------------------- repository
\* db[table][pageURL] is the sequence of rows of the table with that
\* page_url, each row being its feature_vector.
EmptyDb == [t \in Tables |-> [u \in Pages |-> <<>>]]

\* Faulty variant: a column of type vector without a dimension.
ColumnAcceptsAnyDim(table, vector) ==
    \A i \in 1..Len(vector) : ~IsNaN(vector[i]) /\ ~IsInf(vector[i])

\* pgvector column type: the dimension must match and every element be finite.
ColumnAccepts(table, vector) ==
    /\ Len(vector) = Dim(table)
    /\ \A i \in 1..Len(vector) : ~IsNaN(vector[i]) /\ ~IsInf(vector[i])

\* Faulty variant: a plain INSERT, no conflict clause.
PlainCreate(rows, vector) == Append(rows, vector)

\* Faulty variant: ON CONFLICT DO UPDATE.
UpsertCreate(rows, vector) == <<vector>>

\* clause.OnConflict{Columns: page_url, DoNothing: true}.Create(&row)
OnConflictCreate(rows, vector) ==
    IF Len(rows) > 0 THEN rows ELSE Append(rows, vector)

\* Faulty variant: Create without the conflict clause, so that the unique
\* index on page_url rejects a second row with an error.
InsertRowUniqueViolation(d, table, pageURL, vector, dbOk) ==
    IF ~dbOk \/ ~ColumnAccepts(table, vector) \/ Len(d[table][pageURL]) > 0
    THEN [db |-> d, err |-> TRUE, rowsAffected |-> 0]
    ELSE [db |-> [d EXCEPT ![table][pageURL] = Append(@, vector)],
          err |-> FALSE, rowsAffected |-> 1]

\* InsertImage / InsertAudio on table: [db, err, rowsAffected]. dbOk is
\* false when the statement does not reach the database (I/O error, context
\* cancelled).
InsertRow(d, table, pageURL, vector, dbOk) ==
    IF ~dbOk \/ ~ColumnAccepts(table, vector)
    THEN [db |-> d, err |-> TRUE, rowsAffected |-> 0]
    ELSE LET rows == OnConflictCreate(d[table][pageURL], vector)
         IN [db |-> [d EXCEPT ![table][pageURL] = rows],
             err |-> FALSE,
             rowsAffected |-> Len(rows) - Len(d[table][pageURL])]

InsertImage(d, pageURL, vector, dbOk) == InsertRow(d, "images", pageURL, vector, dbOk)
InsertAudio(d, pageURL, vector, dbOk) == InsertRow(d, "audio", pageURL, vector, dbOk)

\* CheckPageURLExists: [exists, err].
CheckPageURLExists(d, pageURL, mediaType, dbOk) ==
    IF mediaType \notin {ImageType, AudioType} THEN [exists |-> FALSE, err |-> TRUE]
    ELSE IF ~dbOk THEN [exists |-> FALSE, err |-> TRUE]
    ELSE [exists |-> Len(d[TableOf(mediaType)][pageURL]) > 0, err |-> FALSE]

\* ---------------------------------------------------------------- similarity search
\* 2^n
RECURSIVE Pow2(_)
Pow2(n) == IF n = 0 THEN 1 ELSE 2 * Pow2(n - 1)

\* The value of a float32 that is a power of two (frac = 0, exp >= 127), as
\* all components of the vectors of this model are.
F32Value(f) == (IF f.sign = 1 THEN -1 ELSE 1) * Pow2(f.exp - 127)

RECURSIVE Dot(_, _)
Dot(a, b) == IF Len(a) = 0 THEN 0
             ELSE F32Value(Head(a)) * F32Value(Head(b)) + Dot(Tail(a), Tail(b))

\* 1 - (feature_vector <=> ?): the cosine similarity of row vector a and
\* query q, kept exactly as the fraction num / den of its signed square
\* sgn(a.q) (a.q)^2 / (|a|^2 |q|^2), which orders as the similarity does.
CosineSimilarity(a, q) ==
    LET d == Dot(a, q)
    IN [num |-> (IF d < 0 THEN -1 ELSE 1) * d * d, den |-> Dot(a, a) * Dot(q, q)]

\* x >= y on similarities.
SimGeq(x, y) == x.num * y.den >= y.num * x.den

\* models.SearchResult
SearchResult(pageURL, similarity, mediaType) ==
    [PageURL |-> pageURL, Similarity |-> similarity, MediaType |-> mediaType]

\* The rows of a table as (page_url, position) pairs.
RowsOf(d, table) ==
    UNION {{<<u, k>> : k \in 1..Len(d[table][u])} : u \in Pages}

\* Every enumeration of a finite set.
Enumerations(S) ==
    {f \in [1..Cardinality(S) -> S] : \A i, j \in 1..Cardinality(S) : f[i] = f[j] => i = j}

\* The first n elements of a sequence.
Prefix(seq, n) == [i \in 1..(IF n < Len(seq) THEN n ELSE Len(seq)) |-> seq[i]]

\* Order("similarity DESC"): the order in which a query may deliver rows
\* of these similarities. Nothing orders rows of equal similarity.
DescendingOrder(sims) == \A i \in 1..(Len(sims) - 1) : SimGeq(sims[i], sims[i + 1])

\* Faulty variant: the Limit clause is missing.
NoLimit(seq, limit) == {seq}

\* Limit(limit): a positive limit keeps the first limit rows, a negative one
\* adds no LIMIT clause; for 0 the clause is "LIMIT 0" or absent, depending
\* on the version of gorm, so both outcomes are kept.
LimitClause(seq, limit) ==
    IF limit > 0 THEN {Prefix(seq, limit)}
    ELSE IF limit < 0 THEN {seq}
    ELSE {<<>>, seq}

\* The MediaType FindSimilarImages / FindSimilarAudio stamps on each result.
ResultType(mediaType) == mediaType

\* FindSimilarImages / FindSimilarAudio on the table of mediaType: the set
\* of [results, err] the call can return. The query fails when the database
\* is not reached or the query vector has not the dimension of the column.
FindSimilar(d, mediaType, queryVector, limit, dbOk) ==
    LET table == TableOf(mediaType)
    IN IF ~dbOk \/ Len(queryVector) # Dim(table)
       THEN {[results |-> <<>>, err |-> TRUE]}
       ELSE LET sim(r) == CosineSimilarity(d[table][r[1]][r[2]], queryVector)
                orders == {e \in Enumerations(RowsOf(d, table)) :
                              DescendingOrder([i \in 1..Len(e) |-> sim(e[i])])}
            IN {[results |-> [i \in 1..Len(cut) |->
                                 SearchResult(cut[i][1], sim(cut[i]), ResultType(mediaType))],
                 err |-> FALSE] :
                   cut \in UNION {LimitClause(e, limit) : e \in orders}}

FindSimilarImages(d, queryVector, limit, dbOk) ==
    FindSimilar(d, ImageType, queryVector, limit, dbOk)
FindSimilarAudio(d, queryVector, limit, dbOk) ==
    FindSimilar(d, AudioType, queryVector, limit, dbOk)

\* ---------------------------------------------------------------- configuration
\* A string is a sequence of one-character strings.
DigitChars == <<"0", "1", "2", "3", "4", "5", "6", "7", "8", "9">>
IsDigit(c) == \E i \in 1..10 : DigitChars[i] = c
DigitValue(c) == (CHOOSE i \in 1..10 : DigitChars[i] = c) - 1

\* The longest prefix of digits of a string.
RECURSIVE DigitPrefix(_)
DigitPrefix(str) ==
    IF Len(str) = 0 \/ ~IsDigit(Head(str)) THEN <<>>
    ELSE <<Head(str)>> \o DigitPrefix(Tail(str))

\* The number a string of digits denotes.
RECURSIVE Decimal(_)
Decimal(digits) ==
    IF Len(digits) = 0 THEN 0
    ELSE 10 * Decimal(SubSeq(digits, 1, Len(digits) - 1)) + DigitValue(digits[Len(digits)])

\* A string without its sign, and the sign.
Unsigned(str) == IF Len(str) > 0 /\ Head(str) \in {"+", "-"} THEN Tail(str) ELSE str
SignOf(str) == IF Len(str) > 0 /\ Head(str) = "-" THEN -1 ELSE 1

\* strconv.Atoi: [val, err]; the whole string must be a signed decimal.
Atoi(str) ==
    LET body == Unsigned(str)
    IN IF Len(body) = 0 \/ DigitPrefix(body) # body THEN [val |-> 0, err |-> TRUE]
       ELSE [val |-> SignOf(str) * Decimal(body), err |-> FALSE]

\* fmt.Sscanf(v, "%d", &x): the value of x afterwards, old when no number
\* is scanned; what follows the digits is not looked at.
Sscanf_d(str, old) ==
    LET digits == DigitPrefix(Unsigned(str))
    IN IF Len(digits) = 0 THEN old ELSE SignOf(str) * Decimal(digits)

\* config.LoadConfig, the DefaultSearchLimit field, from the value of the
\* environment variable DEFAULT_SEARCH_LIMIT (empty when unset).
LoadConfig(env) ==
    [DefaultSearchLimit |-> IF env # <<>> THEN Sscanf_d(env, 0) ELSE 3]

\* Values of DEFAULT_SEARCH_LIMIT an operator may set.
EnvValues == {<<>>, <<"0">>, <<"a">>, <<"-", "1">>, <<"7">>}

\* ---------------------------------------------------------------- inputs
\* ipb.ScrapedItem values a crawler delivers in a batch.
ItemSet ==
    { [PageUrl |-> "p1", MediaUrl |-> "m1", MediaType |-> MediaType_IMAGE],
      [PageUrl |-> "p2", MediaUrl |-> "m1", MediaType |-> MediaType_AUDIO],
      [PageUrl |-> "p1", MediaUrl |-> "m1", MediaType |-> MediaType_UNKNOWN] }

\* The items of the batches that run together with other writers.
WriterItems ==
    { [PageUrl |-> "p1", MediaUrl |-> "m1", MediaType |-> MediaType_IMAGE],
      [PageUrl |-> "p1", MediaUrl |-> "m2", MediaType |-> MediaType_IMAGE],
      [PageUrl |-> "p2", MediaUrl |-> "m1", MediaType |-> MediaType_AUDIO] }

\* Uploads handed to IndexDirectMedia: the page_url form field, the media
\* type determineMediaType derives ("" when it cannot) and the file content
\* ("" for an empty file, else the media it holds).
DirectInputs ==
    [pageURL : {"", "p1"}, mediaType : {ImageType, AudioType, ""}, file : {"", "m2"}]

\* What the extraction service computes for a medium of a class.
Features(mediaUrl, table) ==
    IF mediaUrl = "m1" THEN Repeat(WireBytes(F32_One), Dim(table))
    ELSE WireBytes(F32_Two) \o Repeat(WireBytes(F32_One), Dim(table) - 1)

FeResult(status, vector) == [Status |-> status, FeatureVector |-> vector]
FeResponse(err, results) == [called |-> TRUE, err |-> err, Results |-> results]

\* The fe field of a task that has not called the extraction service.
NoResponse == [called |-> FALSE, err |-> FALSE, Results |-> <<>>]

\* The response of a healthy extraction service for one item.
GoodResponse(mediaUrl, table) ==
    FeResponse(FALSE, <<FeResult(Status_SUCCESS, Features(mediaUrl, table))>>)

RpcError == FeResponse(TRUE, <<>>)

\* Responses of a faulty extraction service.
BadResponses ==
    { RpcError,
      FeResponse(FALSE, <<>>),
      FeResponse(FALSE, <<FeResult(Status_SUCCESS, WireBytes(F32_One)),
                          FeResult(Status_SUCCESS, WireBytes(F32_One))>>),
      FeResponse(FALSE, <<FeResult(Status_FAILED_DOWNLOAD, <<>>)>>),
      FeResponse(FALSE, <<FeResult(Status_SUCCESS, <<>>)>>),
      FeResponse(FALSE, <<FeResult(Status_SUCCESS, <<0, 0, 128>>)>>),
      FeResponse(FALSE, <<FeResult(Status_SUCCESS, WireBytes(F32_NaN))>>),
      FeResponse(FALSE, <<FeResult(Status_SUCCESS, Repeat(WireBytes(F32_One), 3))>>) }

\* ---------------------------------------------------------------- state
VARIABLES
    db,      \* the two tables
    batch,   \* one ProcessScrapedItems / HandleScrapedBatch call per batch id
    task,    \* task[b][i]: the goroutine of item i of batch b
    direct,  \* one IndexDirectMedia call per direct id
    search,  \* one HandleSearch call per search id
    cfg,     \* the configuration LoadConfig returned at start-up
    codec,   \* one encoding and decoding of a vector
    scrape,  \* one HandleScrapeURL call per scrape id
    faults   \* collaborator faults that may still be injected

vars == <<db, batch, task, direct, search, cfg, codec, scrape, faults>>

\* Faulty variant: make(chan bool), without a buffer.
Unbuffered(cap) == [len |-> 0, cap |-> 0, closed |-> FALSE]

\* make(chan bool, cap)
Chan(cap) == [len |-> 0, cap |-> cap, closed |-> FALSE]

IdleTask ==
    [pc |-> "idle", gate |-> "none", fe |-> NoResponse, vector |-> <<>>,
     ins |-> "none", err |-> FALSE]

\* ipb.ProcessScrapedItemsResponse, or the gRPC error status sent instead.
Resp(status, received, processed, failed) ==
    [status |-> status, ItemsReceived |-> received, ItemsProcessed |-> processed,
     ItemsFailed |-> failed]

NoResp == Resp("none", 0, 0, 0)

IdleBatch ==
    [pc |-> "idle", itemCount |-> 0, items |-> <<>>, next |-> 1, active |-> 0, ctxDone |-> FALSE,
     groupErr |-> FALSE, panic |-> FALSE,
     processedChan |-> Chan(0), failedChan |-> Chan(0),
     processedCount |-> 0, failedCount |-> 0, err |-> FALSE, resp |-> NoResp]

IdleDirect ==
    [pc |-> "idle", pageURL |-> "", mediaType |-> "", file |-> "",
     gate |-> "none", fe |-> NoResponse, vector |-> <<>>, ins |-> "none", err |-> FALSE]

\* An HTTP search request that has not arrived yet.
IdleSearch ==
    [pc |-> "idle", limitStr |-> <<>>, limit |-> 0, mediaType |-> "", file |-> "",
     fe |-> NoResponse, vector |-> <<>>, limitToUse |-> 0, find |-> "none",
     results |-> <<>>, err |-> FALSE, status |-> 0, count |-> 0]

\* The result of VectorFromBytes before it is called.
NoVector == [vec |-> <<>>, err |-> FALSE, index |-> -1]

IdleCodec ==
    [pc |-> "idle", floats |-> <<>>, tail |-> <<>>, data |-> <<>>, out |-> NoVector]

\* models.ScrapeRequest
ScrapeRequest(url, depthLimit, crawlStrategy, usePlaywright) ==
    [URL |-> url, DepthLimit |-> depthLimit, CrawlStrategy |-> crawlStrategy,
     UsePlaywright |-> usePlaywright]

NoRequest == ScrapeRequest("", 0, "", FALSE)

\* spb.StartScrapeResponse, or the error of the call.
StartScrapeResponse(err, jobId, status) == [err |-> err, JobId |-> jobId, Status |-> status]

NoScrapeResponse == StartScrapeResponse(FALSE, "", "none")

\* A scrape request that has not arrived yet.
IdleScrape ==
    [pc |-> "idle", req |-> NoRequest, sent |-> NoRequest, res |-> NoScrapeResponse,
     jobID |-> "", status |-> "", err |-> FALSE, http |-> 0]

Init ==
    /\ db = EmptyDb
    /\ batch = [b \in BatchIds |-> IdleBatch]
    /\ task = [b \in BatchIds |-> [i \in 1..MaxBatchLen |-> IdleTask]]
    /\ direct = [d \in DirectIds |-> IdleDirect]
    /\ search = [s \in SearchIds |-> IdleSearch]
    /\ cfg = LoadConfig(<<>>)
    /\ codec = IdleCodec
    /\ scrape = [j \in ScrapeIds |-> IdleScrape]
    /\ faults = MaxFaults

\* Outcomes of a call the context of which is (not) done: a done context
\* fails the call, otherwise it succeeds or a fault is injected.
Oks(ctxDone) ==
    IF ctxDone THEN {FALSE}
    ELSE IF faults > 0 THEN {TRUE, FALSE} ELSE {TRUE}

Charge(ctxDone, ok) == IF ~ctxDone /\ ~ok THEN faults - 1 ELSE faults

\* ---------------------------------------------------------------- batch
\* HandleScrapedBatch: concurrencyLimit := runtime.GOMAXPROCS(0) * 2
concurrencyLimit == GOMAXPROCS * 2

\* Faulty variant: g.SetLimit is missing.
NoLimitFree(active) == TRUE

\* Faulty variant: one semaphore for all batch calls.
SemaphoreShared(active) ==
    batch["b1"].active + batch["b2"].active < concurrencyLimit

\* errgroup Go with SetLimit: a goroutine starts only when fewer than the
\* limit are active; otherwise Go blocks.
SemaphoreFree(active) == active < concurrencyLimit

\* Faulty variant: the goroutine returns the item's error to the group.
GoFuncPropagate(itemErr) == itemErr

\* The value the function passed to g.Go returns for an item whose
\* processing returned itemErr: nil on both branches.
GoFuncReturn(itemErr) == FALSE

\* Faulty variant: the switch has no default branch and an unknown media
\* type is processed as an image.
ModelMediaTypeDefaultImage(mediaType) ==
    IF mediaType = MediaType_AUDIO THEN AudioType ELSE ImageType

\* The switch of processSingleScrapedItem on item.MediaType; "" is the
\* default branch.
ModelMediaType(mediaType) ==
    IF mediaType = MediaType_IMAGE THEN ImageType
    ELSE IF mediaType = MediaType_AUDIO THEN AudioType
    ELSE ""

\* Faulty variant: a failed existence check is taken for "absent".
GateIgnoringError(t, item, d, dbOk) ==
    IF ModelMediaType(item.MediaType) = ""
    THEN [t EXCEPT !.pc = "report", !.err = TRUE]
    ELSE LET r == CheckPageURLExists(d, item.PageUrl, ModelMediaType(item.MediaType), dbOk)
         IN IF r.err THEN [t EXCEPT !.pc = "extract", !.gate = "error"]
            ELSE IF r.exists THEN [t EXCEPT !.pc = "report", !.gate = "present"]
            ELSE [t EXCEPT !.pc = "extract", !.gate = "absent"]

\* Faulty variant: a key found present is processed like an absent one.
GateNoSkip(t, item, d, dbOk) ==
    IF ModelMediaType(item.MediaType) = ""
    THEN [t EXCEPT !.pc = "report", !.err = TRUE]
    ELSE LET r == CheckPageURLExists(d, item.PageUrl, ModelMediaType(item.MediaType), dbOk)
         IN IF r.err THEN [t EXCEPT !.pc = "report", !.gate = "error", !.err = TRUE]
            ELSE IF r.exists THEN [t EXCEPT !.pc = "extract", !.gate = "present"]
            ELSE [t EXCEPT !.pc = "extract", !.gate = "absent"]

\* processSingleScrapedItem up to the deduplication gate: the task after it.
GateStep(t, item, d, dbOk) ==
    IF ModelMediaType(item.MediaType) = ""
    THEN [t EXCEPT !.pc = "report", !.err = TRUE]
    ELSE LET r == CheckPageURLExists(d, item.PageUrl, ModelMediaType(item.MediaType), dbOk)
         IN IF r.err THEN [t EXCEPT !.pc = "report", !.gate = "error", !.err = TRUE]
            ELSE IF r.exists THEN [t EXCEPT !.pc = "report", !.gate = "present"]
            ELSE [t EXCEPT !.pc = "extract", !.gate = "absent"]

\* Faulty variant: only the transport error and the decoding are checked.
ValidateLenient(feRes) ==
    IF feRes.err \/ Len(feRes.Results) = 0 THEN [err |-> TRUE, vector |-> <<>>]
    ELSE LET v == VectorFromBytes(feRes.Results[1].FeatureVector)
         IN IF v.err THEN [err |-> TRUE, vector |-> <<>>]
            ELSE [err |-> FALSE, vector |-> v.vec]

\* The checks of processSingleScrapedItem on the extraction response and the
\* decoding of its vector: [err, vector].
ValidateFeRes(feRes) ==
    IF feRes.err THEN [err |-> TRUE, vector |-> <<>>]
    ELSE IF Len(feRes.Results) # 1 THEN [err |-> TRUE, vector |-> <<>>]
    ELSE LET result == feRes.Results[1]
         IN IF result.Status # Status_SUCCESS THEN [err |-> TRUE, vector |-> <<>>]
            ELSE IF Len(result.FeatureVector) = 0 THEN [err |-> TRUE, vector |-> <<>>]
            ELSE LET v == VectorFromBytes(result.FeatureVector)
                 IN IF v.err THEN [err |-> TRUE, vector |-> <<>>]
                    ELSE [err |-> FALSE, vector |-> v.vec]

\* Faulty variant: the insert follows the extraction call whatever it returned.
ExtractStepUnchecked(t, feRes) ==
    [t EXCEPT !.pc = "insert", !.fe = feRes, !.vector = ValidateFeRes(feRes).vector]

\* Faulty variant: an extraction call that failed is made again.
ExtractStepRetry(t, feRes) ==
    LET r == ValidateFeRes(feRes)
    IN IF r.err THEN [t EXCEPT !.pc = "extract", !.fe = feRes]
       ELSE [t EXCEPT !.pc = "insert", !.fe = feRes, !.vector = r.vector]

\* processSingleScrapedItem from the extraction call to the decoded vector.
ExtractStep(t, feRes) ==
    LET r == ValidateFeRes(feRes)
    IN IF r.err THEN [t EXCEPT !.pc = "report", !.fe = feRes, !.err = TRUE]
       ELSE [t EXCEPT !.pc = "insert", !.fe = feRes, !.vector = r.vector]

\* processSingleScrapedItem, the insert: [task, db].
InsertStep(t, item, d, dbOk) ==
    LET r == IF ModelMediaType(item.MediaType) = ImageType
             THEN InsertImage(d, item.PageUrl, t.vector, dbOk)
             ELSE InsertAudio(d, item.PageUrl, t.vector, dbOk)
    IN IF r.err
       THEN [task |-> [t EXCEPT !.pc = "report", !.ins = "error", !.err = TRUE], db |-> r.db]
       ELSE [task |-> [t EXCEPT !.pc = "report", !.ins = "ok"], db |-> r.db]

\* Faulty variant: the goroutines run under a context that is never done.
BackgroundCtx(b) == FALSE

\* childCtx of errgroup.WithContext(ctx): done when the caller's context is
\* done or a goroutine of the group returned an error.
ChildCtxDone(b) == batch[b].ctxDone \/ batch[b].groupErr

\* The responses the extraction service can give for an item under a context.
FeResponses(ctxDone, mediaUrl, table) ==
    IF ctxDone THEN {RpcError}
    ELSE {GoodResponse(mediaUrl, table)}
         \cup (IF faults > 0 THEN BadResponses ELSE {})

\* Faulty variant: outcomes are counted in a shared counter without
\* synchronisation, and an update made from a stale read is lost.
SendLosing(ch) == [ch EXCEPT !.len = IF @ = 0 THEN 1 ELSE @]

\* A send on a buffered channel.
Send(ch) == [ch EXCEPT !.len = @ + 1]

\* Faulty variant: an empty batch is answered with an error status.
RejectEmptyBatch(bt, n) ==
    IF n = 0
    THEN [bt EXCEPT !.pc = "done", !.err = TRUE, !.resp = Resp("error", 0, 0, 0)]
    ELSE [bt EXCEPT !.pc = "loop", !.itemCount = n,
                    !.processedChan = Chan(n), !.failedChan = Chan(n)]

\* ProcessScrapedItems on a request of n items: an empty batch is answered
\* at once with zero counts, any other is handed to HandleScrapedBatch,
\* which makes the two channels.
AcceptBatch(bt, n) ==
    IF n = 0
    THEN [bt EXCEPT !.pc = "done", !.resp = Resp("ok", 0, 0, 0)]
    ELSE [bt EXCEPT !.pc = "loop", !.itemCount = n,
                    !.processedChan = Chan(n), !.failedChan = Chan(n)]

\* ProcessScrapedItems receives a request of up to maxLen items. The content
\* of an item is drawn when its goroutine is started: nothing reads it
\* earlier.
ProcessScrapedItems(b, maxLen) ==
    /\ batch[b].pc = "idle"
    /\ \E n \in 0..maxLen : batch' = [batch EXCEPT ![b] = AcceptBatch(@, n)]
    /\ UNCHANGED <<db, task, direct, faults, search, cfg, codec, scrape>>

\* One iteration of the for loop of HandleScrapedBatch: g.Go starts the
\* goroutine of the next item.
Go(b, items) ==
    /\ batch[b].pc = "loop"
    /\ SemaphoreFree(batch[b].active)
    /\ \E item \in items :
         /\ task' = [task EXCEPT ![b][batch[b].next].pc = "gate"]
         /\ batch' = [batch EXCEPT ![b].items = Append(@, item),
                                   ![b].next = @ + 1,
                                   ![b].active = @ + 1,
                                   ![b].pc = IF batch[b].next = batch[b].itemCount
                                             THEN "wait" ELSE "loop"]
    /\ UNCHANGED <<db, direct, faults, search, cfg, codec, scrape>>

\* Faulty variant: the failure branch falls through to the success branch.
ReportBoth(bt, t) ==
    [bt EXCEPT
        !.failedChan = IF t.err THEN Send(@) ELSE @,
        !.processedChan = Send(@),
        !.groupErr = @ \/ GoFuncReturn(t.err),
        !.active = @ - 1]

\* The goroutine of item i, its processing over with task record t, reports
\* on one of the two channels and returns; the group records the first
\* error returned and frees the slot. A send on a closed channel panics.
Report(bt, t) ==
    LET ch == IF t.err THEN bt.failedChan ELSE bt.processedChan
    IN [bt EXCEPT
          !.panic = @ \/ ch.closed,
          !.failedChan = IF t.err /\ ~ch.closed THEN Send(@) ELSE @,
          !.processedChan = IF ~t.err /\ ~ch.closed THEN Send(@) ELSE @,
          !.groupErr = @ \/ GoFuncReturn(t.err),
          !.active = @ - 1]

\* A send blocks while the channel is full.
CanReport(bt, t) ==
    LET ch == IF t.err THEN bt.failedChan ELSE bt.processedChan
    IN ch.closed \/ ch.len < ch.cap

\* The task and batch records after a step of the goroutine of item i that
\* leaves its task record as t: a goroutine whose processing is over reports
\* and returns.
Settle(b, i, t) ==
    IF t.pc = "report"
    THEN /\ CanReport(batch[b], t)
         /\ task' = [task EXCEPT ![b][i] = [t EXCEPT !.pc = "done"]]
         /\ batch' = [batch EXCEPT ![b] = Report(@, t)]
    ELSE /\ task' = [task EXCEPT ![b][i] = t]
         /\ UNCHANGED batch

\* The goroutine of item i classifies it and runs the deduplication gate.
Gate(b, i) ==
    /\ task[b][i].pc = "gate"
    /\ LET item == batch[b].items[i]
           usesDb == ModelMediaType(item.MediaType) # ""
       IN \E dbOk \in (IF usesDb THEN Oks(ChildCtxDone(b)) ELSE {TRUE}) :
            /\ Settle(b, i, GateStep(task[b][i], item, db, dbOk))
            /\ faults' = Charge(ChildCtxDone(b), dbOk)
    /\ UNCHANGED <<db, direct, search, cfg, codec, scrape>>

\* The goroutine of item i calls the extraction service and checks the answer.
Extract(b, i) ==
    /\ task[b][i].pc = "extract"
    /\ LET item == batch[b].items[i]
           table == TableOf(ModelMediaType(item.MediaType))
       IN \E feRes \in FeResponses(ChildCtxDone(b), item.MediaUrl, table) :
            /\ Settle(b, i, ExtractStep(task[b][i], feRes))
            /\ faults' = IF feRes \in BadResponses /\ ~ChildCtxDone(b)
                         THEN faults - 1 ELSE faults
    /\ UNCHANGED <<db, direct, search, cfg, codec, scrape>>

\* The goroutine of item i inserts the decoded vector.
Insert(b, i) ==
    /\ task[b][i].pc = "insert"
    /\ \E dbOk \in Oks(ChildCtxDone(b)) :
         LET r == InsertStep(task[b][i], batch[b].items[i], db, dbOk)
         IN /\ Settle(b, i, r.task)
            /\ db' = r.db
            /\ faults' = Charge(ChildCtxDone(b), dbOk)
    /\ UNCHANGED <<direct, search, cfg, codec, scrape>>

\* Faulty variant: the channels are closed and drained without waiting for
\* the goroutines.
WaitEarly(b) ==
    /\ batch[b].pc = "wait"
    /\ batch' = [batch EXCEPT
          ![b].pc = "done",
          ![b].processedChan = [@ EXCEPT !.closed = TRUE, !.len = 0],
          ![b].failedChan = [@ EXCEPT !.closed = TRUE, !.len = 0],
          ![b].processedCount = batch[b].processedChan.len,
          ![b].failedCount = batch[b].failedChan.len,
          ![b].err = batch[b].groupErr,
          ![b].resp = IF batch[b].groupErr THEN Resp("error", 0, 0, 0)
                      ELSE Resp("ok", batch[b].itemCount,
                                batch[b].processedChan.len,
                                batch[b].failedChan.len)]
    /\ UNCHANGED <<db, task, direct, faults, search, cfg, codec, scrape>>

\* g.Wait returns once every goroutine has; the channels are closed and
\* drained, HandleScrapedBatch returns and ProcessScrapedItems answers.
Wait(b) ==
    /\ batch[b].pc = "wait"
    /\ batch[b].active = 0
    /\ batch' = [batch EXCEPT
          ![b].pc = "done",
          ![b].processedChan = [@ EXCEPT !.closed = TRUE, !.len = 0],
          ![b].failedChan = [@ EXCEPT !.closed = TRUE, !.len = 0],
          ![b].processedCount = batch[b].processedChan.len,
          ![b].failedCount = batch[b].failedChan.len,
          ![b].err = batch[b].groupErr,
          ![b].resp = IF batch[b].groupErr THEN Resp("error", 0, 0, 0)
                      ELSE Resp("ok", batch[b].itemCount,
                                batch[b].processedChan.len,
                                batch[b].failedChan.len)]
    /\ UNCHANGED <<db, task, direct, faults, search, cfg, codec, scrape>>

\* Faulty variant: the inserts of the batch are undone when its context is
\* cancelled.
CancelCtxRollback(b) ==
    /\ batch[b].pc \in {"loop", "wait"}
    /\ ~batch[b].ctxDone
    /\ batch' = [batch EXCEPT ![b].ctxDone = TRUE]
    /\ db' = EmptyDb
    /\ UNCHANGED <<task, direct, faults, search, cfg, codec, scrape>>

\* The caller's context is cancelled or its deadline passes during the batch.
CancelCtx(b) ==
    /\ batch[b].pc \in {"loop", "wait"}
    /\ ~batch[b].ctxDone
    /\ batch' = [batch EXCEPT ![b].ctxDone = TRUE]
    /\ UNCHANGED <<db, task, direct, faults, search, cfg, codec, scrape>>

\* ---------------------------------------------------------------- direct index
\* IndexDirectMedia before any collaborator is called: the media type must
\* be determined, the file non-empty and page_url given.
DirectAccept(c, in) ==
    IF in.mediaType = "" \/ in.file = "" \/ in.pageURL = ""
    THEN [c EXCEPT !.pc = "done", !.err = TRUE]
    ELSE [c EXCEPT !.pc = "gate", !.pageURL = in.pageURL,
                   !.mediaType = in.mediaType, !.file = in.file]

\* Faulty variant: a key found present is indexed again.
DirectGateNoSkip(c, d, dbOk) ==
    LET r == CheckPageURLExists(d, c.pageURL, c.mediaType, dbOk)
    IN IF r.err THEN [c EXCEPT !.pc = "done", !.gate = "error", !.err = TRUE]
       ELSE IF r.exists THEN [c EXCEPT !.pc = "extract", !.gate = "present"]
       ELSE [c EXCEPT !.pc = "extract", !.gate = "absent"]

\* IndexDirectMedia, the existence check.
DirectGateStep(c, d, dbOk) ==
    LET r == CheckPageURLExists(d, c.pageURL, c.mediaType, dbOk)
    IN IF r.err THEN [c EXCEPT !.pc = "done", !.gate = "error", !.err = TRUE]
       ELSE IF r.exists THEN [c EXCEPT !.pc = "done", !.gate = "present"]
       ELSE [c EXCEPT !.pc = "extract", !.gate = "absent"]

\* Faulty variant: only the transport error and the decoding are checked.
DirectValidateLenient(feRes) ==
    IF feRes.err \/ Len(feRes.Results) = 0 THEN [err |-> TRUE, vector |-> <<>>]
    ELSE LET v == VectorFromBytes(feRes.Results[1].FeatureVector)
         IN IF v.err THEN [err |-> TRUE, vector |-> <<>>]
            ELSE [err |-> FALSE, vector |-> v.vec]

\* IndexDirectMedia, the checks on the extraction response: [err, vector].
DirectValidateFeRes(feRes) ==
    IF feRes.err THEN [err |-> TRUE, vector |-> <<>>]
    ELSE IF Len(feRes.Results) # 1 THEN [err |-> TRUE, vector |-> <<>>]
    ELSE LET result == feRes.Results[1]
         IN IF result.Status # Status_SUCCESS THEN [err |-> TRUE, vector |-> <<>>]
            ELSE IF Len(result.FeatureVector) = 0 THEN [err |-> TRUE, vector |-> <<>>]
            ELSE LET v == VectorFromBytes(result.FeatureVector)
                 IN IF v.err THEN [err |-> TRUE, vector |-> <<>>]
                    ELSE [err |-> FALSE, vector |-> v.vec]

\* IndexDirectMedia from the extraction call to the decoded vector.
DirectExtractStep(c, feRes) ==
    LET r == DirectValidateFeRes(feRes)
    IN IF r.err THEN [c EXCEPT !.pc = "done", !.fe = feRes, !.err = TRUE]
       ELSE [c EXCEPT !.pc = "insert", !.fe = feRes, !.vector = r.vector]

\* IndexDirectMedia, the insert: [call, db].
DirectInsertStep(c, d, dbOk) ==
    LET r == IF c.mediaType = ImageType
             THEN InsertImage(d, c.pageURL, c.vector, dbOk)
             ELSE InsertAudio(d, c.pageURL, c.vector, dbOk)
    IN IF r.err
       THEN [call |-> [c EXCEPT !.pc = "done", !.ins = "error", !.err = TRUE], db |-> r.db]
       ELSE [call |-> [c EXCEPT !.pc = "done", !.ins = "ok"], db |-> r.db]

IndexDirectMedia(c) ==
    /\ direct[c].pc = "idle"
    /\ \E in \in DirectInputs : direct' = [direct EXCEPT ![c] = DirectAccept(@, in)]
    /\ UNCHANGED <<db, batch, task, faults, search, cfg, codec, scrape>>

DirectGate(c) ==
    /\ direct[c].pc = "gate"
    /\ \E dbOk \in Oks(FALSE) :
         /\ direct' = [direct EXCEPT ![c] = DirectGateStep(@, db, dbOk)]
         /\ faults' = Charge(FALSE, dbOk)
    /\ UNCHANGED <<db, batch, task, search, cfg, codec, scrape>>

DirectExtract(c) ==
    /\ direct[c].pc = "extract"
    /\ \E feRes \in FeResponses(FALSE, direct[c].file, TableOf(direct[c].mediaType)) :
         /\ direct' = [direct EXCEPT ![c] = DirectExtractStep(@, feRes)]
         /\ faults' = IF feRes \in BadResponses THEN faults - 1 ELSE faults
    /\ UNCHANGED <<db, batch, task, search, cfg, codec, scrape>>

DirectInsert(c) ==
    /\ direct[c].pc = "insert"
    /\ \E dbOk \in Oks(FALSE) :
         LET r == DirectInsertStep(direct[c], db, dbOk)
         IN /\ direct' = [direct EXCEPT ![c] = r.call]
            /\ db' = r.db
            /\ faults' = Charge(FALSE, dbOk)
    /\ UNCHANGED <<batch, task, search, cfg, codec, scrape>>

\* ---------------------------------------------------------------- search
\* Values of the "limit" query parameter; c.DefaultQuery gives "10" when the
\* parameter is absent.
LimitStrs == {<<"1", "0">>, <<"0">>, <<"-", "1">>, <<"1">>, <<"a">>}

\* Search requests: whether the form has a media_file, the limit parameter,
\* the media type determineMediaType derives ("" when it cannot) and the file
\* content ("" for an empty file, else the media it holds).
SearchInputs ==
    [hasFile : BOOLEAN, limitStr : LimitStrs,
     mediaType : {ImageType, AudioType, ""}, file : {"", "m1"}]

\* Faulty variant: the parsed limit is passed on as it is.
HandlerLimitUnchecked(limitStr) == Atoi(limitStr).val

\* HandleSearch: the limit handed to SearchByMedia.
HandlerLimit(limitStr) ==
    LET r == Atoi(limitStr)
    IN IF r.err \/ r.val <= 0 THEN 10 ELSE r.val

\* SearchByMedia: limitToUse.
LimitToUse(limit, c) == IF limit <= 0 THEN c.DefaultSearchLimit ELSE limit

\* HandleSearch up to the extraction call of SearchByMedia: a request without
\* media_file is answered 400; SearchByMedia fails when the media type cannot
\* be determined or the file is empty, and HandleSearch answers 500.
SearchAccept(sr, in) ==
    IF ~in.hasFile THEN [sr EXCEPT !.pc = "done", !.err = TRUE, !.status = 400]
    ELSE IF in.mediaType = "" \/ in.file = ""
    THEN [sr EXCEPT !.pc = "done", !.err = TRUE, !.status = 500]
    ELSE [sr EXCEPT !.pc = "extract", !.limitStr = in.limitStr,
                    !.limit = HandlerLimit(in.limitStr),
                    !.mediaType = in.mediaType, !.file = in.file]

\* Faulty variant: only the transport error and the decoding are checked.
SearchValidateLenient(feRes) ==
    IF feRes.err \/ Len(feRes.Results) = 0 THEN [err |-> TRUE, vector |-> <<>>]
    ELSE LET v == VectorFromBytes(feRes.Results[1].FeatureVector)
         IN IF v.err THEN [err |-> TRUE, vector |-> <<>>]
            ELSE [err |-> FALSE, vector |-> v.vec]

\* SearchByMedia, the checks on the extraction response and the decoding of
\* the query vector: [err, vector].
SearchValidateFeRes(feRes) ==
    IF feRes.err THEN [err |-> TRUE, vector |-> <<>>]
    ELSE IF Len(feRes.Results) # 1 THEN [err |-> TRUE, vector |-> <<>>]
    ELSE LET result == feRes.Results[1]
         IN IF result.Status # Status_SUCCESS THEN [err |-> TRUE, vector |-> <<>>]
            ELSE IF Len(result.FeatureVector) = 0 THEN [err |-> TRUE, vector |-> <<>>]
            ELSE LET v == VectorFromBytes(result.FeatureVector)
                 IN IF v.err THEN [err |-> TRUE, vector |-> <<>>]
                    ELSE [err |-> FALSE, vector |-> v.vec]

\* SearchByMedia from the extraction call to limitToUse; on an error
\* HandleSearch answers 500.
SearchExtractStep(sr, feRes, c) ==
    LET r == SearchValidateFeRes(feRes)
    IN IF r.err THEN [sr EXCEPT !.pc = "done", !.fe = feRes, !.err = TRUE, !.status = 500]
       ELSE [sr EXCEPT !.pc = "find", !.fe = feRes, !.vector = r.vector,
                       !.limitToUse = LimitToUse(sr.limit, c)]

\* The similarity queries SearchByMedia can get answered for a call.
SearchFindOutcomes(sr, d, dbOk) ==
    IF sr.mediaType = ImageType
    THEN FindSimilarImages(d, sr.vector, sr.limitToUse, dbOk)
    ELSE FindSimilarAudio(d, sr.vector, sr.limitToUse, dbOk)

\* Faulty variant: Count is the limit asked for.
SearchResponseCountLimit(sr, results) ==
    [sr EXCEPT !.pc = "done", !.find = "ok", !.results = results,
               !.status = 200, !.count = sr.limitToUse]

\* HandleSearch: models.SearchResponse{Results: results, Count: len(results)}
\* with status 200.
SearchResponse(sr, results) ==
    [sr EXCEPT !.pc = "done", !.find = "ok", !.results = results,
               !.status = 200, !.count = Len(results)]

\* SearchByMedia after the similarity query returned r, and the answer of
\* HandleSearch.
SearchFindStep(sr, r) ==
    IF r.err THEN [sr EXCEPT !.pc = "done", !.find = "error", !.err = TRUE, !.status = 500]
    ELSE SearchResponse(sr, r.results)

HandleSearch(s, inputs) ==
    /\ search[s].pc = "idle"
    /\ \E in \in inputs : search' = [search EXCEPT ![s] = SearchAccept(@, in)]
    /\ UNCHANGED <<db, batch, task, direct, cfg, codec, faults, scrape>>

SearchExtract(s) ==
    /\ search[s].pc = "extract"
    /\ \E feRes \in FeResponses(FALSE, search[s].file, TableOf(search[s].mediaType)) :
         /\ search' = [search EXCEPT ![s] = SearchExtractStep(@, feRes, cfg)]
         /\ faults' = IF feRes \in BadResponses THEN faults - 1 ELSE faults
    /\ UNCHANGED <<db, batch, task, direct, cfg, codec, scrape>>

\* Faulty variant: the query vector is indexed under the first page while
\* the similarity query runs.
SearchFindIndexing(s) ==
    /\ search[s].pc = "find"
    /\ \E dbOk \in Oks(FALSE) :
         /\ \E r \in SearchFindOutcomes(search[s], db, dbOk) :
               search' = [search EXCEPT ![s] = SearchFindStep(@, r)]
         /\ db' = InsertRow(db, TableOf(search[s].mediaType), "p1", search[s].vector, dbOk).db
         /\ faults' = Charge(FALSE, dbOk)
    /\ UNCHANGED <<batch, task, direct, cfg, codec, scrape>>

SearchFind(s) ==
    /\ search[s].pc = "find"
    /\ \E dbOk \in Oks(FALSE) :
         /\ \E r \in SearchFindOutcomes(search[s], db, dbOk) :
               search' = [search EXCEPT ![s] = SearchFindStep(@, r)]
         /\ faults' = Charge(FALSE, dbOk)
    /\ UNCHANGED <<db, batch, task, direct, cfg, codec, scrape>>

\* The request of an answered search, sent again.
Repeated(sr) ==
    {in \in SearchInputs :
        /\ sr.pc = "done" /\ sr.status = 200
        /\ in.hasFile /\ in.limitStr = sr.limitStr
        /\ in.mediaType = sr.mediaType /\ in.file = sr.file}

\* ---------------------------------------------------------------- codec round
\* The float32 values vectors are made of, finite and not.
F32Samples ==
    {F32_One, F32_Two, F32_Zero, F32_NegOneUp, F32_MaxFinite,
     F32_NaN, F32_NegNaN, F32_Inf, F32_NegInf}

\* The vectors a sender encodes.
FloatSeqs == UNION {[1..n -> F32Samples] : n \in 0..MaxVecLen}

\* Stray bytes after the last whole group of a buffer.
Tails == {<<>>, <<0>>, <<0, 128>>, <<0, 0, 128>>}

\* encode: one 4-byte little-endian group per value, in input order.
RECURSIVE Encode(_)
Encode(values) ==
    IF Len(values) = 0 THEN <<>>
    ELSE WireBytes(Head(values)) \o Encode(Tail(values))

\* The sender encodes the vector; the buffer that arrives is the encoding
\* followed by the stray bytes.
Serialize ==
    /\ codec.pc = "input"
    /\ codec' = [codec EXCEPT !.pc = "sent", !.data = Encode(codec.floats) \o codec.tail]
    /\ UNCHANGED <<db, batch, task, direct, search, cfg, faults, scrape>>

\* The receiver calls VectorFromBytes on the buffer.
Deserialize ==
    /\ codec.pc = "sent"
    /\ codec' = [codec EXCEPT !.pc = "decoded", !.out = VectorFromBytes(codec.data)]
    /\ UNCHANGED <<db, batch, task, direct, search, cfg, faults, scrape>>

\* ---------------------------------------------------------------- scrape request
\* spb.Status
Scrape_ACCEPTED == "ACCEPTED"
Scrape_REJECTED == "REJECTED"

\* Bodies of POST requests to the scrape endpoint; a body without a url does
\* not bind.
ScrapeInputs ==
    {ScrapeRequest(u, d, c, p) :
        u \in {"", "u1", "u2"}, d \in {-1, 0, 1, 3}, c \in {"", "bfs"}, p \in BOOLEAN}

\* Answers of the scraper service, and the failure of the call.
ScraperResponses ==
    {StartScrapeResponse(FALSE, j, st) : j \in {"job1", "job2"},
                                          st \in {Scrape_ACCEPTED, Scrape_REJECTED}}
    \cup (IF faults > 0 THEN {StartScrapeResponse(TRUE, "", "none")} ELSE {})

\* RequestScrape: the request handed to scraper.StartScrape.
ScrapeDefaults(req) ==
    [req EXCEPT !.DepthLimit = IF @ <= 0 THEN 2 ELSE @,
                !.CrawlStrategy = IF @ = "" THEN "default" ELSE @]

\* HandleScrapeURL up to the StartScrape call.
ScrapeAccept(sc, req) ==
    IF req.URL = "" THEN [sc EXCEPT !.pc = "done", !.err = TRUE, !.http = 400]
    ELSE [sc EXCEPT !.pc = "call", !.req = req, !.sent = ScrapeDefaults(req)]

\* RequestScrape after StartScrape returned res: [jobID, status, err].
RequestScrapeReturn(res) ==
    IF res.err THEN [jobID |-> "", status |-> "REJECTED", err |-> TRUE]
    ELSE IF res.Status = Scrape_REJECTED
    THEN [jobID |-> res.JobId, status |-> "REJECTED", err |-> TRUE]
    ELSE [jobID |-> res.JobId, status |-> "ACCEPTED", err |-> FALSE]

\* HandleScrapeURL after RequestScrape returned r: 500 on an error, else 202.
ScrapeAnswer(sc, res) ==
    LET r == RequestScrapeReturn(res)
    IN [sc EXCEPT !.pc = "done", !.res = res, !.jobID = r.jobID, !.status = r.status,
                  !.err = r.err, !.http = IF r.err THEN 500 ELSE 202]

HandleScrapeURL(j) ==
    /\ scrape[j].pc = "idle"
    /\ \E req \in ScrapeInputs : scrape' = [scrape EXCEPT ![j] = ScrapeAccept(@, req)]
    /\ UNCHANGED <<db, batch, task, direct, search, cfg, codec, faults>>

StartScrape(j) ==
    /\ scrape[j].pc = "call"
    /\ \E res \in ScraperResponses :
         /\ scrape' = [scrape EXCEPT ![j] = ScrapeAnswer(@, res)]
         /\ faults' = IF res.err THEN faults - 1 ELSE faults
    /\ UNCHANGED <<db, batch, task, direct, search, cfg, codec>>

\* ---------------------------------------------------------------- specifications
\* One batch call, with collaborator faults and cancellation of its context.
Next ==
    \/ ProcessScrapedItems("b1", MaxBatchLen)
    \/ Go("b1", ItemSet)
    \/ \E i \in 1..MaxBatchLen : Gate("b1", i)
    \/ \E i \in 1..MaxBatchLen : Extract("b1", i)
    \/ \E i \in 1..MaxBatchLen : Insert("b1", i)
    \/ Wait("b1")
    \/ CancelCtx("b1")

Spec == Init /\ [][Next]_vars

\* Two batch calls and a direct-index call writing concurrently, with
\* healthy collaborators.
InitWriters ==
    /\ db = EmptyDb
    /\ batch = [b \in BatchIds |-> IdleBatch]
    /\ task = [b \in BatchIds |-> [i \in 1..MaxBatchLen |-> IdleTask]]
    /\ direct = [d \in DirectIds |-> IdleDirect]
    /\ search = [s \in SearchIds |-> IdleSearch]
    /\ cfg = LoadConfig(<<>>)
    /\ codec = IdleCodec
    /\ scrape = [j \in ScrapeIds |-> IdleScrape]
    /\ faults = 0

NextWriters ==
    \/ ProcessScrapedItems("b1", MaxWriterBatchLen)
    \/ batch["b1"].pc # "idle" /\ ProcessScrapedItems("b2", MaxWriterBatchLen)
    \/ \E b \in BatchIds : Go(b, WriterItems)
    \/ \E b \in BatchIds : \E i \in 1..MaxBatchLen : Gate(b, i)
    \/ \E b \in BatchIds : \E i \in 1..MaxBatchLen : Extract(b, i)
    \/ \E b \in BatchIds : \E i \in 1..MaxBatchLen : Insert(b, i)
    \/ \E b \in BatchIds : Wait(b)
    \/ \E c \in DirectIds : IndexDirectMedia(c)
    \/ \E c \in DirectIds : DirectGate(c)
    \/ \E c \in DirectIds : DirectExtract(c)
    \/ \E c \in DirectIds : DirectInsert(c)

SpecWriters == InitWriters /\ [][NextWriters]_vars

\* One batch call with healthy collaborators, in which every call made
\* returns and every goroutine that can run does: each step of the call is
\* taken if it stays possible. Items still fail, on an unsupported media
\* type or on the cancellation of the context, which may or may not happen.
InitFair ==
    /\ db = EmptyDb
    /\ batch = [b \in BatchIds |-> IdleBatch]
    /\ task = [b \in BatchIds |-> [i \in 1..MaxBatchLen |-> IdleTask]]
    /\ direct = [d \in DirectIds |-> IdleDirect]
    /\ search = [s \in SearchIds |-> IdleSearch]
    /\ cfg = LoadConfig(<<>>)
    /\ codec = IdleCodec
    /\ scrape = [j \in ScrapeIds |-> IdleScrape]
    /\ faults = 0

Fairness ==
    /\ WF_vars(Go("b1", ItemSet))
    /\ \A i \in 1..MaxBatchLen :
          /\ WF_vars(Gate("b1", i))
          /\ WF_vars(Extract("b1", i))
          /\ WF_vars(Insert("b1", i))
    /\ WF_vars(Wait("b1"))

SpecFair == InitFair /\ [][Next]_vars /\ Fairness

\* One batch call with healthy collaborators and a context that may be
\* cancelled, every interleaving of its goroutines.
SpecHealthy == InitFair /\ [][Next]_vars

\* The stores ingestion can have built: at most one row per key, holding
\* the decoded features of a medium.
Stores ==
    {d \in [Tables -> [Pages -> UNION {{<<>>},
                {<<VectorFromBytes(Features(m, t)).vec>> : m \in MediaUrls, t \in Tables}}]] :
        \A t \in Tables : \A u \in Pages :
            Len(d[t][u]) = 0 \/ \E m \in MediaUrls : d[t][u] = <<VectorFromBytes(Features(m, t)).vec>>}

\* The items of batches that run side by side.
ConcurrentItems ==
    { [PageUrl |-> "p1", MediaUrl |-> "m1", MediaType |-> MediaType_IMAGE] }

\* A batch call of up to MaxBatchLen items and one of up to
\* MaxWriterBatchLen items running concurrently against one store, with
\* healthy collaborators.
NextBatches ==
    \/ ProcessScrapedItems("b1", MaxBatchLen)
    \/ batch["b1"].pc # "idle" /\ ProcessScrapedItems("b2", MaxWriterBatchLen)
    \/ \E b \in BatchIds : Go(b, ConcurrentItems)
    \/ \E b \in BatchIds : \E i \in 1..MaxBatchLen : Gate(b, i)
    \/ \E b \in BatchIds : \E i \in 1..MaxBatchLen : Extract(b, i)
    \/ \E b \in BatchIds : \E i \in 1..MaxBatchLen : Insert(b, i)
    \/ \E b \in BatchIds : Wait(b)

SpecBatches == InitWriters /\ [][NextBatches]_vars

\* One batch call and one direct-index call writing concurrently, with
\* collaborator faults.
NextIngest ==
    \/ ProcessScrapedItems("b1", MaxWriterBatchLen)
    \/ Go("b1", WriterItems)
    \/ \E i \in 1..MaxBatchLen : Gate("b1", i)
    \/ \E i \in 1..MaxBatchLen : Extract("b1", i)
    \/ \E i \in 1..MaxBatchLen : Insert("b1", i)
    \/ Wait("b1")
    \/ \E c \in DirectIds : IndexDirectMedia(c)
    \/ \E c \in DirectIds : DirectGate(c)
    \/ \E c \in DirectIds : DirectExtract(c)
    \/ \E c \in DirectIds : DirectInsert(c)

SpecIngest == Init /\ [][NextIngest]_vars

\* A search request and the same request sent again, against a store that
\* no writer changes, under every configuration the loader can return.
InitSearch ==
    /\ db \in Stores
    /\ batch = [b \in BatchIds |-> IdleBatch]
    /\ task = [b \in BatchIds |-> [i \in 1..MaxBatchLen |-> IdleTask]]
    /\ direct = [d \in DirectIds |-> IdleDirect]
    /\ search = [s \in SearchIds |-> IdleSearch]
    /\ cfg \in {LoadConfig(env) : env \in EnvValues}
    /\ codec = IdleCodec
    /\ scrape = [j \in ScrapeIds |-> IdleScrape]
    /\ faults = MaxFaults

NextSearch ==
    \/ HandleSearch("s1", SearchInputs)
    \/ HandleSearch("s2", Repeated(search["s1"]))
    \/ \E s \in SearchIds : SearchExtract(s)
    \/ \E s \in SearchIds : SearchFind(s)

SpecSearch == InitSearch /\ [][NextSearch]_vars

\* One direct-index call against a store ingestion has built, with
\* collaborator faults.
InitDirect ==
    /\ db \in Stores
    /\ batch = [b \in BatchIds |-> IdleBatch]
    /\ task = [b \in BatchIds |-> [i \in 1..MaxBatchLen |-> IdleTask]]
    /\ direct = [d \in DirectIds |-> IdleDirect]
    /\ search = [s \in SearchIds |-> IdleSearch]
    /\ cfg = LoadConfig(<<>>)
    /\ codec = IdleCodec
    /\ scrape = [j \in ScrapeIds |-> IdleScrape]
    /\ faults = MaxFaults

NextDirect ==
    \/ \E c \in DirectIds : IndexDirectMedia(c)
    \/ \E c \in DirectIds : DirectGate(c)
    \/ \E c \in DirectIds : DirectExtract(c)
    \/ \E c \in DirectIds : DirectInsert(c)

SpecDirect == InitDirect /\ [][NextDirect]_vars

\* One vector through the codec, for every vector of FloatSeqs and every
\* tail of stray bytes.
InitCodec ==
    /\ db = EmptyDb
    /\ batch = [b \in BatchIds |-> IdleBatch]
    /\ task = [b \in BatchIds |-> [i \in 1..MaxBatchLen |-> IdleTask]]
    /\ direct = [d \in DirectIds |-> IdleDirect]
    /\ search = [s \in SearchIds |-> IdleSearch]
    /\ cfg = LoadConfig(<<>>)
    /\ \E f \in FloatSeqs : \E t \in Tails :
          codec = [IdleCodec EXCEPT !.pc = "input", !.floats = f, !.tail = t]
    /\ scrape = [j \in ScrapeIds |-> IdleScrape]
    /\ faults = 0

NextCodec ==
    \/ Serialize
    \/ Deserialize

SpecCodec == InitCodec /\ [][NextCodec]_vars

\* One scrape request, with a scraper service that accepts, rejects or
\* cannot be reached.
InitScrape ==
    /\ db = EmptyDb
    /\ batch = [b \in BatchIds |-> IdleBatch]
    /\ task = [b \in BatchIds |-> [i \in 1..MaxBatchLen |-> IdleTask]]
    /\ direct = [d \in DirectIds |-> IdleDirect]
    /\ search = [s \in SearchIds |-> IdleSearch]
    /\ cfg = LoadConfig(<<>>)
    /\ codec = IdleCodec
    /\ scrape = [j \in ScrapeIds |-> IdleScrape]
    /\ faults = MaxFaults

NextScrape ==
    \/ \E j \in ScrapeIds : HandleScrapeURL(j)
    \/ \E j \in ScrapeIds : StartScrape(j)

SpecScrape == InitScrape /\ [][NextScrape]_vars

\* ---------------------------------------------------------------- claims
\* The key of an item: its table and page URL.
ItemTable(item) == TableOf(ModelMediaType(item.MediaType))
Supported(item) == ModelMediaType(item.MediaType) # ""
Started(b) == {i \in 1..MaxBatchLen : task[b][i].pc # "idle"}
Running(b) == {i \in 1..MaxBatchLen : task[b][i].pc \in {"gate", "extract", "insert"}}
Returned(b) == batch[b].pc = "done" /\ batch[b].itemCount > 0

\* C1: in every reachable state, whatever the interleaving of the goroutines
\* of the batches and of the direct-index call, each table holds at most one
\* row per page URL.
C1_AtMostOneRecordPerKey ==
    \A t \in Tables : \A u \in Pages : Len(db[t][u]) <= 1

\* Both batches and the direct-index call have inserted for the image of
\* page p1 without error.
C1_Witness ==
    /\ \A b \in BatchIds :
          /\ task[b][1].ins = "ok"
          /\ batch[b].items[1].PageUrl = "p1"
          /\ batch[b].items[1].MediaType = MediaType_IMAGE
    /\ direct["d1"].ins = "ok" /\ direct["d1"].mediaType = ImageType
    /\ Len(db["images"]["p1"]) = 1

\* C2: when a batch call returns in which two items have the same page URL
\* and media class and neither failed, exactly one record is stored for the
\* key and the second attempt is reported as skipped: the response counts at
\* least one item as neither processed nor failed.
C2_SecondAttemptSkipped ==
    \A i, j \in 1..MaxBatchLen :
       ( /\ Returned("b1") /\ i < j /\ j <= batch["b1"].itemCount
         /\ Supported(batch["b1"].items[i])
         /\ batch["b1"].items[i].PageUrl = batch["b1"].items[j].PageUrl
         /\ batch["b1"].items[i].MediaType = batch["b1"].items[j].MediaType
         /\ ~task["b1"][i].err /\ ~task["b1"][j].err )
       => /\ Len(db[ItemTable(batch["b1"].items[i])][batch["b1"].items[i].PageUrl]) = 1
          /\ batch["b1"].resp.ItemsReceived
               - (batch["b1"].resp.ItemsProcessed + batch["b1"].resp.ItemsFailed) >= 1

\* C3: when a batch call returns counts, itemsReceived - (itemsProcessed +
\* itemsFailed) is the number of items the deduplication gate found present.
C3_DifferenceIsSkipCount ==
    (Returned("b1") /\ batch["b1"].resp.status = "ok")
    => batch["b1"].resp.ItemsReceived
          - (batch["b1"].resp.ItemsProcessed + batch["b1"].resp.ItemsFailed)
       = Cardinality({i \in 1..MaxBatchLen : task["b1"][i].gate = "present"})

\* C4: every batch call that returns counts has itemsProcessed + itemsFailed
\* <= itemsReceived.
C4_CountsWithinReceived ==
    \A b \in BatchIds :
       (batch[b].pc = "done" /\ batch[b].resp.status = "ok")
       => batch[b].resp.ItemsProcessed + batch[b].resp.ItemsFailed
            <= batch[b].resp.ItemsReceived

\* A batch of MaxBatchLen items returned with items succeeded and items failed.
C4_Witness ==
    /\ Returned("b1") /\ batch["b1"].resp.status = "ok"
    /\ batch["b1"].resp.ItemsReceived = MaxBatchLen
    /\ batch["b1"].resp.ItemsProcessed > 0
    /\ batch["b1"].resp.ItemsFailed > 0

\* C5: at any time at most 2 x GOMAXPROCS goroutines of a batch run, so at
\* most that many extraction calls are in flight, and the loop starts the
\* next goroutine only when fewer are running.
C5_ConcurrencyBound ==
    \A b \in BatchIds :
       /\ Cardinality(Running(b)) <= 2 * GOMAXPROCS
       /\ Cardinality({i \in Running(b) : task[b][i].pc = "extract"}) <= 2 * GOMAXPROCS
       /\ batch[b].active = Cardinality(Running(b))

\* The loop has items left while as many goroutines as the bound allows are
\* all inside the extraction call: g.Go blocks.
C5_Witness ==
    /\ batch["b1"].pc = "loop"
    /\ batch["b1"].itemCount > 2 * GOMAXPROCS
    /\ Cardinality({i \in Running("b1") : task["b1"][i].pc = "extract"}) = 2 * GOMAXPROCS
    /\ ~ENABLED Go("b1", ItemSet)

\* C6: a failed item never cancels the context of its siblings, and a batch
\* call returns an error only if the caller's context is done: otherwise
\* it returns counts.
C6_FailureIsolated ==
    \A b \in BatchIds :
       /\ ChildCtxDone(b) => batch[b].ctxDone
       /\ batch[b].pc = "done" =>
             /\ batch[b].err => batch[b].ctxDone
             /\ ~batch[b].ctxDone => batch[b].resp.status = "ok"

\* The first item failed at the gate on a repository error, the context was
\* never cancelled, and both siblings stored their records; the call
\* returned counts.
C6_Witness ==
    /\ Returned("b1") /\ ~batch["b1"].ctxDone
    /\ task["b1"][1].gate = "error"
    /\ task["b1"][2].ins = "ok" /\ task["b1"][3].ins = "ok"
    /\ batch["b1"].resp = Resp("ok", 3, 2, 1)
    /\ Len(db["images"]["p1"]) = 1 /\ Len(db["audio"]["p2"]) = 1

\* C7: when the caller's context is cancelled during a batch and an item
\* fails on it, HandleScrapedBatch returns an error and ProcessScrapedItems
\* answers with a failure, not with counts.
C7_CancelReturnsError ==
    ( /\ Returned("b1") /\ batch["b1"].ctxDone
      /\ faults = MaxFaults
      /\ \E i \in Started("b1") :
            \/ task["b1"][i].gate = "error"
            \/ task["b1"][i].fe = RpcError
            \/ task["b1"][i].ins = "error" )
    => batch["b1"].err /\ batch["b1"].resp.status = "error"

\* C8: an insert for a key that already has a row leaves both tables as
\* they are, and returns no error whenever the statement is executed (the
\* database is reached and the vector fits the column); the insert is one
\* step of the goroutine.
C8_ConflictIsNoOp ==
    [][\A b \in BatchIds : \A i \in 1..MaxBatchLen :
          ( /\ task[b][i].pc = "insert"
            /\ task'[b][i].pc = "done"
            /\ Len(db[ItemTable(batch[b].items[i])][batch[b].items[i].PageUrl]) > 0 )
          => /\ db' = db
             /\ ( /\ faults' = faults
                  /\ ~ChildCtxDone(b)
                  /\ ColumnAccepts(ItemTable(batch[b].items[i]), task[b][i].vector) )
                => (task'[b][i].ins = "ok" /\ ~task'[b][i].err)]_vars

\* Two items of one batch passed the gate for the same key and both inserts
\* returned without error: the second found the row of the first.
C8_Witness ==
    /\ task["b1"][1].gate = "absent" /\ task["b1"][1].ins = "ok"
    /\ task["b1"][2].gate = "absent" /\ task["b1"][2].ins = "ok"
    /\ batch["b1"].items[1].PageUrl = batch["b1"].items[2].PageUrl
    /\ batch["b1"].items[1].MediaType = batch["b1"].items[2].MediaType
    /\ Len(db["images"]["p1"]) = 1

\* C9: a row, once stored, keeps its vector and is never removed by any
\* step of a batch or of a direct-index call.
C9_RecordsNeverChange ==
    [][\A t \in Tables : \A u \in Pages : \A k \in 1..Len(db[t][u]) :
          /\ Len(db'[t][u]) >= k
          /\ db'[t][u][k] = db[t][u][k]]_vars

\* The direct-index call inserted another vector for a key a batch had
\* stored, without error, and the stored vector is still that of the batch.
C9_Witness ==
    /\ direct["d1"].ins = "ok" /\ direct["d1"].mediaType = ImageType
    /\ \E b \in BatchIds :
          /\ task[b][1].ins = "ok"
          /\ batch[b].items[1].MediaType = MediaType_IMAGE
          /\ batch[b].items[1].PageUrl = direct["d1"].pageURL
          /\ db["images"][direct["d1"].pageURL] = <<task[b][1].vector>>
          /\ task[b][1].vector # direct["d1"].vector

\* C10: an item whose existence check fails with a repository error is
\* reported failed, and its goroutine calls neither the extraction service
\* nor an insert.
C10_GateErrorFailsItem ==
    \A b \in BatchIds :
       LET failedAtGate == {i \in 1..MaxBatchLen : task[b][i].gate = "error"}
       IN /\ \A i \in failedAtGate :
                /\ task[b][i].pc = "done"
                /\ task[b][i].err
                /\ ~task[b][i].fe.called
                /\ task[b][i].ins = "none"
          /\ batch[b].pc \in {"loop", "wait"} =>
                batch[b].failedChan.len >= Cardinality(failedAtGate)
          /\ batch[b].pc = "done" =>
                /\ batch[b].failedCount >= Cardinality(failedAtGate)
                /\ batch[b].processedCount
                     <= batch[b].itemCount - Cardinality(failedAtGate)

\* With the context live, the existence check of an item failed on a
\* repository error, and the batch returned with that item counted failed.
C10_Witness ==
    /\ Returned("b1") /\ ~batch["b1"].ctxDone
    /\ task["b1"][2].gate = "error"
    /\ batch["b1"].resp = Resp("ok", 3, 2, 1)

\* C11: a batch call with an empty item list answers itemsReceived =
\* itemsProcessed = itemsFailed = 0 without error, and neither the repository
\* nor the extraction service is called: no goroutine is started, the tables
\* are as they were and no collaborator call was made that could fail.
C11_EmptyBatchIsNoOp ==
    (batch["b1"].pc = "done" /\ batch["b1"].itemCount = 0)
    => /\ batch["b1"].resp = Resp("ok", 0, 0, 0)
       /\ ~batch["b1"].err
       /\ batch["b1"].items = <<>>
       /\ \A i \in 1..MaxBatchLen : task["b1"][i] = IdleTask
       /\ db = EmptyDb
       /\ faults = MaxFaults

\* An empty batch was answered.
C11_Witness ==
    /\ batch["b1"].pc = "done"
    /\ batch["b1"].itemCount = 0
    /\ batch["b1"].resp.status = "ok"

\* C12: a similarity query that returns without error returns only rows of
\* the table of the queried class, each once and stamped with that class, in
\* order of descending similarity, and exactly min(limit, number of rows of
\* the class) of them.
C12_FindSimilarRanksAndTruncates ==
    \A s \in SearchIds :
       search[s].find = "ok" =>
          LET res == search[s].results
              rows == RowsOf(db, TableOf(search[s].mediaType))
              n == Cardinality(rows)
          IN /\ Len(res) = IF search[s].limitToUse < n THEN search[s].limitToUse ELSE n
             /\ \A i \in 1..Len(res) :
                   /\ res[i].MediaType = search[s].mediaType
                   /\ \E r \in rows :
                         /\ r[1] = res[i].PageURL
                         /\ res[i].Similarity =
                               CosineSimilarity(db[TableOf(search[s].mediaType)][r[1]][r[2]],
                                                search[s].vector)
             /\ \A i, j \in 1..Len(res) : res[i].PageURL = res[j].PageURL => i = j
             /\ \A i \in 1..(Len(res) - 1) :
                   res[i].Similarity.num * res[i + 1].Similarity.den
                      >= res[i + 1].Similarity.num * res[i].Similarity.den

\* An image query with limit 1 against two image rows of different
\* similarity and an audio row returned the closer image row alone.
C12_Witness ==
    /\ search["s1"].find = "ok"
    /\ search["s1"].mediaType = ImageType
    /\ search["s1"].limitToUse = 1
    /\ Len(db["images"]["p1"]) = 1 /\ Len(db["images"]["p2"]) = 1
    /\ db["images"]["p1"] # db["images"]["p2"]
    /\ Len(db["audio"]["p1"]) = 1
    /\ Len(search["s1"].results) = 1
    /\ db["images"][search["s1"].results[1].PageURL] = <<search["s1"].vector>>

\* C13: two similarity queries with the same query vector, class and limit
\* against the same rows return the same sequence, rows of equal similarity
\* included.
C13_RepeatedQueryIdentical ==
    ( /\ search["s1"].find = "ok" /\ search["s2"].find = "ok"
      /\ search["s1"].mediaType = search["s2"].mediaType
      /\ search["s1"].vector = search["s2"].vector
      /\ search["s1"].limitToUse = search["s2"].limitToUse )
    => search["s1"].results = search["s2"].results

\* C14: every similarity query of a search has a positive limit, whatever
\* the limit parameter of the request and whatever DefaultSearchLimit the
\* loader returned; a limit parameter that is no positive number is replaced
\* by a positive default before the query.
C14_QueryLimitPositive ==
    \A s \in SearchIds :
       search[s].pc = "find" \/ search[s].find # "none" =>
          /\ search[s].limitToUse > 0
          /\ (Atoi(search[s].limitStr).err \/ Atoi(search[s].limitStr).val <= 0)
                => search[s].limitToUse = 10

\* A request with limit=0 reached the similarity query while the configured
\* DefaultSearchLimit is not positive.
C14_Witness ==
    /\ search["s1"].find = "ok"
    /\ search["s1"].limitStr = <<"0">>
    /\ cfg.DefaultSearchLimit <= 0

C16_SearchFailsFast ==
    \A s \in SearchIds :
       ( /\ search[s].fe.called
         /\ \/ search[s].fe.err
            \/ Len(search[s].fe.Results) # 1
            \/ search[s].fe.Results[1].Status # Status_SUCCESS
            \/ Len(search[s].fe.Results[1].FeatureVector) = 0
            \/ VectorFromBytes(search[s].fe.Results[1].FeatureVector).err )
       => /\ search[s].pc = "done"
          /\ search[s].err /\ search[s].status = 500
          /\ search[s].results = <<>> /\ search[s].count = 0
          /\ search[s].find = "none"

\* A search got a single result of status FAILED_DOWNLOAD from the
\* extraction service and was answered with an error.
C16_Witness ==
    /\ search["s1"].pc = "done"
    /\ search["s1"].fe.called /\ ~search["s1"].fe.err
    /\ Len(search["s1"].fe.Results) = 1
    /\ search["s1"].fe.Results[1].Status = Status_FAILED_DOWNLOAD
    /\ search["s1"].err

\* C17: when the extraction service answers a direct-index call with a
\* single result of a status other than success, the call ends at that step
\* with an error, has made and makes no insert, and the step leaves both
\* tables as they were.
C17_FailedStatusInsertsNothing ==
    [][\A c \in DirectIds :
          ( /\ direct'[c].fe.called /\ ~direct'[c].fe.err
            /\ Len(direct'[c].fe.Results) = 1
            /\ direct'[c].fe.Results[1].Status # Status_SUCCESS )
          => /\ db' = db
             /\ direct'[c].pc = "done"
             /\ direct'[c].err
             /\ direct'[c].ins = "none"]_vars

\* A direct-index call for a key without a row got FAILED_DOWNLOAD from the
\* extraction service and returned an error; the key still has no row.
C17_Witness ==
    /\ direct["d1"].pc = "done" /\ direct["d1"].err
    /\ direct["d1"].gate = "absent"
    /\ direct["d1"].fe.called /\ ~direct["d1"].fe.err
    /\ Len(direct["d1"].fe.Results) = 1
    /\ direct["d1"].fe.Results[1].Status = Status_FAILED_DOWNLOAD
    /\ direct["d1"].ins = "none"
    /\ Len(db[TableOf(direct["d1"].mediaType)][direct["d1"].pageURL]) = 0

\* C18: VectorFromBytes of a buffer whose length is not a multiple of 4
\* returns an error and no vector.
C18_MisalignedRejected ==
    (codec.pc = "decoded" /\ Len(codec.data) % 4 # 0)
    => codec.out.err /\ codec.out.vec = <<>>

\* A buffer of a whole finite group and one stray byte was rejected.
C18_Witness ==
    /\ codec.pc = "decoded"
    /\ Len(codec.data) = 5
    /\ codec.floats = <<F32_One>>
    /\ codec.out.err

\* C19: VectorFromBytes of a buffer of whole groups one of which holds a
\* NaN, +Inf or -Inf pattern (exponent bits all one) returns an error that
\* names the index of the first such group, and no vector.
C19_NonFiniteRejected ==
    LET bad == {i \in 1..Len(codec.floats) : codec.floats[i].exp = 255}
    IN (codec.pc = "decoded" /\ codec.tail = <<>> /\ bad # {})
       => /\ codec.out.err
          /\ codec.out.vec = <<>>
          /\ \E i \in bad : /\ \A j \in bad : i <= j
                            /\ codec.out.index = i - 1

\* A buffer whose second group is -Inf was rejected with index 1.
C19_Witness ==
    /\ codec.pc = "decoded"
    /\ codec.floats = <<F32_One, F32_NegInf>>
    /\ codec.tail = <<>>
    /\ codec.out.err /\ codec.out.index = 1

\* C20: the encoding of a vector has one 4-byte little-endian group per
\* value, in input order, and VectorFromBytes of the encoding of a vector of
\* finite values returns that vector without error.
C20_RoundTrip ==
    (codec.pc = "decoded" /\ codec.tail = <<>>)
    => /\ Len(codec.data) = 4 * Len(codec.floats)
       /\ \A i \in 1..Len(codec.floats) :
             /\ codec.data[4 * i - 3] = codec.floats[i].frac % 256
             /\ codec.data[4 * i] = codec.floats[i].sign * 128 + codec.floats[i].exp \div 2
       /\ (\A i \in 1..Len(codec.floats) : codec.floats[i].exp # 255)
             => /\ ~codec.out.err
                /\ codec.out.vec = codec.floats

\* The vector <<-1.0000001, 2.0>> came back from its encoding.
C20_Witness ==
    /\ codec.pc = "decoded"
    /\ codec.tail = <<>>
    /\ codec.floats = <<F32_NegOneUp, F32_Two>>
    /\ codec.out.vec = <<F32_NegOneUp, F32_Two>>
    /\ ~codec.out.err

\* C21: a scrape request the scraper service answers with status REJECTED
\* returns the job id and the status REJECTED to its caller without an error.
C21_RejectionIsNoFault ==
    \A j \in ScrapeIds :
       ( /\ scrape[j].pc = "done"
         /\ ~scrape[j].res.err
         /\ scrape[j].res.Status = Scrape_REJECTED )
       => /\ scrape[j].jobID = scrape[j].res.JobId
          /\ scrape[j].status = "REJECTED"
          /\ ~scrape[j].err

\* C22: for a batch item the deduplication gate finds present, the goroutine
\* makes no extraction call and no insert, and ends without error.
C22_PresentItemSkipsWork ==
    \A b \in BatchIds : \A i \in 1..MaxBatchLen :
       task[b][i].gate = "present" =>
          /\ task[b][i].pc = "done"
          /\ ~task[b][i].fe.called
          /\ task[b][i].ins = "none"
          /\ ~task[b][i].err

\* The second of two items for one key found the row the first had stored.
C22_Witness ==
    /\ Returned("b1")
    /\ task["b1"][1].ins = "ok"
    /\ task["b1"][2].gate = "present"
    /\ batch["b1"].items[1] = batch["b1"].items[2]

\* C23: per item the steps come in the order gate, extraction, validation
\* and decoding, insert: an extraction call is made only after the gate
\* returned absent, and an insert only after, in addition, the extraction
\* call returned exactly one result of status success whose bytes decoded
\* without error to the vector that is inserted.
C23_StepsInOrder ==
    \A b \in BatchIds : \A i \in 1..MaxBatchLen :
       LET t == task[b][i]
       IN /\ (t.pc = "extract" \/ t.fe.called) => t.gate = "absent"
          /\ (t.pc = "insert" \/ t.ins # "none") =>
                /\ t.gate = "absent"
                /\ t.fe.called /\ ~t.fe.err
                /\ Len(t.fe.Results) = 1
                /\ t.fe.Results[1].Status = Status_SUCCESS
                /\ LET decoded == VectorFromBytes(t.fe.Results[1].FeatureVector)
                   IN ~decoded.err /\ t.vector = decoded.vec

\* An item went through all four steps and its record is stored.
C23_Witness ==
    /\ task["b1"][1].pc = "done" /\ task["b1"][1].ins = "ok"
    /\ db[ItemTable(batch["b1"].items[1])][batch["b1"].items[1].PageUrl]
          = <<task["b1"][1].vector>>

\* C24: a batch item whose extraction response holds a number of results
\* other than 1, a status other than success or an empty vector ends with an
\* error and without insert, and is counted failed, not processed.
C24_BadExtractionFailsItem ==
    \A b \in BatchIds :
       LET bad == {i \in 1..MaxBatchLen :
                     /\ task[b][i].fe.called /\ ~task[b][i].fe.err
                     /\ \/ Len(task[b][i].fe.Results) # 1
                        \/ task[b][i].fe.Results[1].Status # Status_SUCCESS
                        \/ Len(task[b][i].fe.Results[1].FeatureVector) = 0}
       IN /\ \A i \in bad :
                /\ task[b][i].pc = "done" /\ task[b][i].err
                /\ task[b][i].ins = "none"
          /\ batch[b].pc = "done" =>
                /\ batch[b].failedCount >= Cardinality(bad)
                /\ batch[b].processedCount <= batch[b].itemCount - Cardinality(bad)

\* A batch returned in which the extraction service had answered one item
\* with a success status and an empty vector.
C24_Witness ==
    /\ Returned("b1")
    /\ \E i \in 1..MaxBatchLen :
          /\ task["b1"][i].fe.called /\ ~task["b1"][i].fe.err
          /\ Len(task["b1"][i].fe.Results) = 1
          /\ task["b1"][i].fe.Results[1].Status = Status_SUCCESS
          /\ Len(task["b1"][i].fe.Results[1].FeatureVector) = 0
    /\ batch["b1"].resp.ItemsFailed = 1

\* C25: cancelling the caller's context during a batch undoes nothing: in
\* every state after the cancellation, the return of the call included, the
\* key of every item whose insert returned without error has its row, and
\* the row holds the vector of such an item.
C25_CancelKeepsInserted ==
    \A i \in 1..MaxBatchLen :
       (batch["b1"].ctxDone /\ task["b1"][i].ins = "ok") =>
          LET rows == db[ItemTable(batch["b1"].items[i])][batch["b1"].items[i].PageUrl]
          IN /\ Len(rows) = 1
             /\ \E j \in 1..MaxBatchLen :
                   /\ task["b1"][j].ins = "ok"
                   /\ batch["b1"].items[j] = batch["b1"].items[i]
                   /\ rows = <<task["b1"][j].vector>>

\* The first item stored its record, the context was cancelled, a later item
\* failed on the cancelled context, and the call returned: the record is
\* still there.
C25_Witness ==
    /\ Returned("b1") /\ batch["b1"].ctxDone /\ faults = MaxFaults
    /\ task["b1"][1].ins = "ok"
    /\ \E i \in 2..MaxBatchLen : task["b1"][i].err /\ task["b1"][i].gate = "error"
    /\ Len(db[ItemTable(batch["b1"].items[1])][batch["b1"].items[1].PageUrl]) = 1

\* C26: once the caller's context is cancelled it stays so, and from then on
\* no step of the batch stores a record and no goroutine that had not passed
\* its gate check makes an extraction call or an insert: it is not started,
\* or waits at the gate, or has ended.
C26_CancelStopsRemaining ==
    [][batch["b1"].ctxDone =>
          /\ batch'["b1"].ctxDone
          /\ db' = db
          /\ \A i \in 1..MaxBatchLen :
                task["b1"][i].pc \in {"idle", "gate"} =>
                   /\ task'["b1"][i].pc \in {"idle", "gate", "done"}
                   /\ ~task'["b1"][i].fe.called
                   /\ task'["b1"][i].ins = "none"]_vars

\* The context was cancelled while the first item was in its extraction
\* call; that call failed, the items started afterwards failed at the gate
\* without an extraction call, and the call returned with an empty store.
C26_Witness ==
    /\ Returned("b1") /\ batch["b1"].ctxDone /\ faults = MaxFaults
    /\ batch["b1"].itemCount = MaxBatchLen
    /\ task["b1"][1].fe = RpcError
    /\ \A i \in 2..MaxBatchLen :
          /\ Supported(batch["b1"].items[i])
          /\ task["b1"][i].gate = "error" /\ ~task["b1"][i].fe.called
    /\ db = EmptyDb

\* C27: when every gate check, extraction call and insert returns, a batch
\* call that was received returns: no goroutine stays blocked on the report
\* of its outcome and g.Wait returns after the last goroutine.
C27_BatchReturns ==
    (batch["b1"].pc # "idle") ~> (batch["b1"].pc = "done")

\* A batch of MaxBatchLen items returned after every goroutine had reported.
C27_Witness ==
    /\ Returned("b1")
    /\ batch["b1"].itemCount = MaxBatchLen
    /\ \A i \in 1..MaxBatchLen : task["b1"][i].pc = "done"
    /\ batch["b1"].processedCount + batch["b1"].failedCount = MaxBatchLen

\* C28: an extraction result whose vector has not 4 x the dimension of its
\* class in bytes is never stored: every row has the dimension of its table,
\* the insert of such an item does not succeed, and once its goroutine has
\* ended the item has an error and is counted failed.
C28_WrongDimensionNotStored ==
    /\ \A t \in Tables : \A u \in Pages : \A k \in 1..Len(db[t][u]) :
          Len(db[t][u][k]) = Dim(t)
    /\ \A b \in BatchIds :
          LET wrong == {i \in 1..MaxBatchLen :
                          /\ task[b][i].fe.called /\ ~task[b][i].fe.err
                          /\ Len(task[b][i].fe.Results) = 1
                          /\ Len(task[b][i].fe.Results[1].FeatureVector)
                                # 4 * Dim(ItemTable(batch[b].items[i]))}
          IN /\ \A i \in wrong :
                   /\ task[b][i].ins # "ok"
                   /\ task[b][i].pc = "done" => task[b][i].err
             /\ batch[b].pc = "done" => batch[b].failedCount >= Cardinality(wrong)

\* The extraction service answered an item with three float32 values; they
\* decoded, the insert was refused, and the item was counted failed.
C28_Witness ==
    /\ Returned("b1")
    /\ \E i \in 1..MaxBatchLen :
          /\ Len(task["b1"][i].vector) = 3
          /\ task["b1"][i].ins = "error"
    /\ batch["b1"].resp.ItemsFailed = 1

\* C29: whatever bytes the extraction service returns to a batch or to a
\* direct-index call, every element of every stored vector is finite, and so
\* is every element of every vector handed to an insert.
C29_StoredVectorsFinite ==
    /\ \A t \in Tables : \A u \in Pages : \A k \in 1..Len(db[t][u]) :
          \A e \in 1..Len(db[t][u][k]) : db[t][u][k][e].exp # 255
    /\ \A b \in BatchIds : \A i \in 1..MaxBatchLen :
          \A e \in 1..Len(task[b][i].vector) : task[b][i].vector[e].exp # 255
    /\ \A c \in DirectIds :
          \A e \in 1..Len(direct[c].vector) : direct[c].vector[e].exp # 255

\* The extraction service answered the direct-index call with the bytes of a
\* NaN, the call failed, and the batch stored a record.
C29_Witness ==
    /\ direct["d1"].pc = "done" /\ direct["d1"].err
    /\ direct["d1"].fe.called /\ ~direct["d1"].fe.err
    /\ Len(direct["d1"].fe.Results) = 1
    /\ direct["d1"].fe.Results[1].FeatureVector = WireBytes(F32_NaN)
    /\ direct["d1"].ins = "none"
    /\ task["b1"][1].ins = "ok"

\* C30: a direct-index call for a key that has a row ends at the existence
\* check: it returns without error, has made and makes no extraction call and
\* no insert, and the step leaves both tables as they were.
C30_DirectPresentIsNoOp ==
    [][\A c \in DirectIds :
          ( /\ direct[c].pc = "gate"
            /\ direct'[c] # direct[c]
            /\ faults' = faults
            /\ Len(db[TableOf(direct[c].mediaType)][direct[c].pageURL]) > 0 )
          => /\ direct'[c].pc = "done"
             /\ direct'[c].gate = "present"
             /\ ~direct'[c].err
             /\ ~direct'[c].fe.called
             /\ direct'[c].ins = "none"
             /\ db' = db]_vars

\* A direct-index call for the image of page p1, which had a row, returned
\* without error at the existence check.
C30_Witness ==
    /\ direct["d1"].pc = "done" /\ direct["d1"].gate = "present"
    /\ direct["d1"].mediaType = ImageType /\ direct["d1"].pageURL = "p1"
    /\ ~direct["d1"].err
    /\ Len(db["images"]["p1"]) = 1

\* C31: a batch item whose media type is neither image nor audio gets no gate
\* check, no extraction call and no insert; its goroutine ends with an error,
\* and the batch counts at least as many failed items as it has such items.
C31_UnsupportedTypeFails ==
    \A b \in BatchIds :
       LET unsupported == {i \in 1..Len(batch[b].items) :
                             batch[b].items[i].MediaType
                                \notin {MediaType_IMAGE, MediaType_AUDIO}}
       IN /\ \A i \in unsupported :
                /\ task[b][i].pc \in {"gate", "done"}
                /\ task[b][i].gate = "none"
                /\ ~task[b][i].fe.called
                /\ task[b][i].ins = "none"
                /\ task[b][i].pc = "done" => task[b][i].err
          /\ batch[b].pc = "done" =>
                /\ batch[b].failedCount >= Cardinality(unsupported)
                /\ batch[b].processedCount <= batch[b].itemCount - Cardinality(unsupported)

\* A batch of one image item and two items of unknown type returned: the
\* image is stored and the two others are counted failed.
C31_Witness ==
    /\ Returned("b1") /\ ~batch["b1"].ctxDone
    /\ batch["b1"].itemCount = 3
    /\ batch["b1"].items[1].MediaType = MediaType_IMAGE
    /\ batch["b1"].items[2].MediaType = MediaType_UNKNOWN
    /\ batch["b1"].items[3].MediaType = MediaType_UNKNOWN
    /\ task["b1"][1].ins = "ok"
    /\ batch["b1"].resp = Resp("ok", 3, 1, 2)

\* C32: within a batch call no step is made twice for an item: once the
\* extraction call of an item has returned, its response stays the one
\* recorded and the item never stands before an extraction call again; a
\* goroutine that has ended stays as it ended; the loop never goes back to an
\* item, and a goroutine that left the gate never returns to it.
C32_NoRetry ==
    [][\A b \in BatchIds :
          /\ batch'[b].next >= batch[b].next
          /\ \A i \in 1..MaxBatchLen :
                /\ task[b][i].fe.called =>
                      /\ task'[b][i].fe = task[b][i].fe
                      /\ task'[b][i].pc # "extract"
                /\ task[b][i].pc = "done" => task'[b][i] = task[b][i]
                /\ task[b][i].pc \notin {"idle", "gate"} => task'[b][i].pc # "gate"
                /\ task[b][i].pc # "idle" => task'[b][i].pc # "idle"]_vars

\* The extraction call of an item failed on the transport while the context
\* was live; the item was counted failed without a second call and the batch
\* returned with nothing stored for it.
C32_Witness ==
    /\ Returned("b1") /\ ~batch["b1"].ctxDone
    /\ task["b1"][1].fe = RpcError /\ task["b1"][1].pc = "done"
    /\ task["b1"][1].ins = "none"
    /\ batch["b1"].resp.ItemsFailed >= 1
    /\ faults = MaxFaults - 1

\* C33: VectorFromBytes of an empty buffer returns the empty vector and no
\* error; of a buffer of 4n bytes in which no group has all exponent bits
\* set it returns, without error, n elements, the i-th having the sign,
\* exponent and fraction bits of the 32-bit word whose least significant
\* byte is byte 4i and whose most significant byte is byte 4i+3.
C33_DecodeGroups ==
    LET data == codec.data
        n == Len(data) \div 4
        expBits(i) == (data[4 * i] % 128) * 2 + data[4 * i - 1] \div 128
    IN codec.pc = "decoded" =>
          /\ Len(data) = 0 => ~codec.out.err /\ codec.out.vec = <<>>
          /\ (Len(data) % 4 = 0 /\ \A i \in 1..n : expBits(i) # 255) =>
                /\ ~codec.out.err
                /\ Len(codec.out.vec) = n
                /\ \A i \in 1..n :
                      /\ codec.out.vec[i].sign = data[4 * i] \div 128
                      /\ codec.out.vec[i].exp = expBits(i)
                      /\ codec.out.vec[i].frac =
                            (data[4 * i - 1] % 128) * 65536
                               + data[4 * i - 2] * 256 + data[4 * i - 3]

\* The eight bytes of 0.0 and of the largest finite float32 decoded to these
\* two values.
C33_Witness ==
    /\ codec.pc = "decoded"
    /\ codec.data = <<0, 0, 0, 0, 255, 255, 127, 127>>
    /\ ~codec.out.err
    /\ codec.out.vec = <<F32_Zero, F32_MaxFinite>>

\* C34: in every state of a batch call each goroutine that has ended has
\* reported once, on the failure channel if it ended with an error and on the
\* success channel otherwise, and no other report is in a channel; when the
\* call returns, every item has ended and processedCount + failedCount is
\* the number of items of the batch.
C34_CountsExact ==
    \A b \in BatchIds :
       LET ended == {i \in 1..MaxBatchLen : task[b][i].pc = "done"}
           failed == {i \in ended : task[b][i].err}
       IN /\ batch[b].pc \in {"loop", "wait"} =>
                /\ batch[b].failedChan.len = Cardinality(failed)
                /\ batch[b].processedChan.len = Cardinality(ended \ failed)
          /\ batch[b].pc = "done" =>
                /\ Cardinality(ended) = batch[b].itemCount
                /\ batch[b].failedCount = Cardinality(failed)
                /\ batch[b].processedCount = Cardinality(ended \ failed)
                /\ batch[b].processedCount + batch[b].failedCount = batch[b].itemCount

\* A batch of MaxBatchLen items returned with at least two items counted
\* failed and at least one counted processed.
C34_Witness ==
    /\ Returned("b1")
    /\ batch["b1"].itemCount = MaxBatchLen
    /\ batch["b1"].processedCount + batch["b1"].failedCount = MaxBatchLen
    /\ batch["b1"].failedCount >= 2
    /\ batch["b1"].processedCount >= 1

\* C35: no goroutine of a batch sends on a closed channel; a channel is
\* closed only when every goroutine of the batch has ended; both channels
\* have the batch size as capacity, and while a goroutine has yet to report,
\* each channel has room for the reports of all that have not, so no send
\* blocks.
C35_ChannelsSafe ==
    \A b \in BatchIds :
       LET pending == batch[b].itemCount
                         - Cardinality({i \in 1..MaxBatchLen : task[b][i].pc = "done"})
       IN /\ ~batch[b].panic
          /\ (batch[b].processedChan.closed \/ batch[b].failedChan.closed) =>
                /\ pending = 0
                /\ batch[b].active = 0
          /\ batch[b].processedChan.cap = batch[b].itemCount
          /\ batch[b].failedChan.cap = batch[b].itemCount
          /\ batch[b].processedChan.len + pending <= batch[b].processedChan.cap
          /\ batch[b].failedChan.len + pending <= batch[b].failedChan.cap

\* Every item of a batch of MaxBatchLen items failed: the failure channel
\* was filled to its capacity, then both channels were closed and the call
\* returned.
C35_Witness ==
    /\ Returned("b1")
    /\ batch["b1"].processedChan.closed /\ batch["b1"].failedChan.closed
    /\ batch["b1"].failedChan.cap = MaxBatchLen
    /\ batch["b1"].failedCount = MaxBatchLen
    /\ ~batch["b1"].panic

C37_SearchReadOnly ==
    [][(\E s \in SearchIds : search'[s] # search[s]) => db' = db]_vars

\* A search was answered with a result from a store that holds records, and
\* the same request sent again failed in the similarity query.
C37_Witness ==
    /\ search["s1"].pc = "done" /\ search["s1"].status = 200
    /\ Len(search["s1"].results) >= 1
    /\ search["s2"].pc = "done" /\ search["s2"].find = "error"
    /\ \E t \in Tables : \E u \in Pages : Len(db[t][u]) = 1

\* C38: the bound on running goroutines is kept by each batch call for
\* itself. Each batch has at most 2 x GOMAXPROCS goroutines running, all
\* batch calls under way together have at most that many times their
\* number, and a batch with items left and fewer goroutines running than the
\* bound can start the next one however many the other batch is running.
C38_BoundPerBatch ==
    LET underWay == {b \in BatchIds : batch[b].pc \in {"loop", "wait"}}
        total == Cardinality(Running("b1")) + Cardinality(Running("b2"))
    IN /\ \A b \in BatchIds : Cardinality(Running(b)) <= concurrencyLimit
       /\ total <= Cardinality(underWay) * concurrencyLimit
       /\ \A b \in BatchIds :
             (batch[b].pc = "loop" /\ Cardinality(Running(b)) < concurrencyLimit)
                => ENABLED Go(b, ConcurrentItems)

\* The first batch runs as many goroutines as the bound allows and its loop
\* is blocked with an item left, while the second batch runs one more: more
\* goroutines are running than one batch may run.
C38_Witness ==
    /\ Cardinality(Running("b1")) = concurrencyLimit
    /\ batch["b1"].pc = "loop" /\ ~ENABLED Go("b1", ConcurrentItems)
    /\ Cardinality(Running("b2")) >= 1
    /\ Cardinality(Running("b1")) + Cardinality(Running("b2")) > concurrencyLimit

====
